---------------------------- MODULE Spec2Model ----------------------------
(***************************************************************************)
(* State-machine model of src/bot.py: the liquidation stream handler, the  *)
(* rolling-window deques behind liq_lock, the per-event spike check, the   *)
(* window summary and the scoring engine of run_analysis.                  *)
(*                                                                         *)
(* Numbers.  Python floats are modelled by exact integers:                 *)
(*   - time.time() is the integer `clock`, in seconds;                     *)
(*   - notional values (qty * price) are integers;                         *)
(*   - a mean or a division by 10 is never rounded: it is kept as a sum    *)
(*     and a divisor and compared by cross-multiplication;                 *)
(*   - the polled metrics are scaled to integers (units stated where the   *)
(*     thresholds are defined).                                            *)
(* Time.  One call of a handler takes far less than one clock unit, so     *)
(* every time.time() read of one call returns the same clock value; the    *)
(* clock advances between calls (action Tick).                             *)
(***************************************************************************)
EXTENDS Integers, Sequences, FiniteSets, TLC

(***************************************************************************)
(* Configuration (src/bot.py lines 44-63)                                  *)
(***************************************************************************)
\* seconds
LIQUIDATION_WINDOW_SEC == 60
\* 2.0
LIQUIDATION_SPIKE_MULT == 2
\* the literal 10 of get_liquidation_summary: baseline window = 10 windows
BASELINE_WINDOWS == 10
\* the literal 3 of check_liquidation_spike: len(recent) > 3
SPIKE_MIN_LEN == 3
\* deque(maxlen=...)
LOG_MAXLEN == 500
BUY_MAXLEN == 200
SELL_MAXLEN == 200
\* funding rate, in units of 0.00001: -0.0005 and 0.0005
FUNDING_BEAR_THRESHOLD == -50
FUNDING_BULL_THRESHOLD == 50
\* long/short ratio, in units of 0.01: 0.90 and 1.10
LS_RATIO_SHORT_HEAVY == 90
LS_RATIO_LONG_HEAVY == 110
\* SOL per side
ORDER_BOOK_THIN_THRESHOLD == 5000
\* volume ratio, in units of 0.01: 0.50 and 2.00
VOLUME_LOW_RATIO == 50
VOLUME_SPIKE_RATIO == 200
MIN_BUY_SCORE == 6
MIN_SELL_SCORE == -6
\* time.sleep(5) before a reconnect, line 283
RECONNECT_DELAY == 5

(***************************************************************************)
(* Bounds of the model                                                     *)
(***************************************************************************)
\* connection attempts in SpecConn that may end; the last one stays
MaxAttempts == 2
\* connection attempts in SpecLive that may end; the last one stays
MaxLiveAttempts == 2
\* messages delivered in SpecLive
MaxLiveMsgs == 1
\* messages delivered in SpecConn
MaxConnMsgs == 2
\* clock steps taken in SpecConn outside the reconnect delay
MaxConnTicks == 1
\* messages delivered in SpecCover
MaxCover == 205
\* messages of SpecCover that arrive before the gap of 600 s
CoverOld == 5
\* largest absolute total score in SpecDecide
MaxAbsScore == 50
\* messages delivered in SpecSpike
MaxMsgs == 5
\* largest clock value in SpecSpike
MaxTime == 60
\* messages delivered in SpecFifo
MaxFeed == 505
\* messages delivered in Spec
MaxIngest == 2
\* clock steps taken in Spec
MaxTicks == 2

(***************************************************************************)
(* Feed messages.  A message is what json.loads and the .get calls of      *)
(* on_liquidation_message can tell apart: whether it decodes to an object  *)
(* with an object (or no) "o", the side text "S" ("" when the key is       *)
(* absent), and the fields "q" and "p", each absent, numeric or text that  *)
(* float() rejects.                                                        *)
(***************************************************************************)
Absent == [k |-> "absent", n |-> 0]
Num(n) == [k |-> "num", n |-> n]
Junk == [k |-> "junk", n |-> 0]

Undecodable == [ok |-> FALSE, S |-> "", q |-> Absent, p |-> Absent]
Msg(S, q, p) == [ok |-> TRUE, S |-> S, q |-> q, p |-> p]

\* float(order.get(key, 0)): the default 0 when the key is absent
Float(f) == IF f.k = "num" THEN f.n ELSE 0
\* float() raises ValueError on text that is no number
FloatRaises(f) == f.k = "junk"

\* json.loads raises, or .get is called on a non-dict, or float() raises:
\* the except clause swallows it
DecodeRaises(m) == ~m.ok \/ FloatRaises(m.q) \/ FloatRaises(m.p)

(***************************************************************************)
(* Pure helpers                                                            *)
(***************************************************************************)
RECURSIVE SumSeq(_)
SumSeq(s) ==
    IF s = <<>> THEN 0
    ELSE IF Len(s) = 1 THEN s[1]
    ELSE LET h == Len(s) \div 2
         IN  SumSeq(SubSeq(s, 1, h)) + SumSeq(SubSeq(s, h + 1, Len(s)))

\* a full deque that refuses the new entry instead of dropping the oldest
DequeAppend_DropNewest(dq, x, maxlen) ==
    IF Len(dq) >= maxlen THEN dq ELSE Append(dq, x)

\* a full deque that drops its two oldest entries for one new entry
DequeAppend_EvictTwo(dq, x, maxlen) ==
    LET s == Append(dq, x)
    IN  IF Len(s) > maxlen THEN Tail(Tail(s)) ELSE s

\* appendleft in place of append: the newest entry goes to the front
DequeAppend_Left(dq, x, maxlen) ==
    LET s == <<x>> \o dq
    IN  IF Len(s) > maxlen THEN SubSeq(s, 1, maxlen) ELSE s

\* collections.deque(maxlen=n).append(x): the oldest entry leaves on overflow
DequeAppend(dq, x, maxlen) ==
    LET s == Append(dq, x)
    IN  IF Len(s) > maxlen THEN Tail(s) ELSE s

\* the window with >= where the code has >
RecentPairs_Inclusive(dq, cutoff) ==
    LET InWindow(e) == e[1] >= cutoff
    IN  SelectSeq(dq, InWindow)

\* [(t, v) for t, v in dq if t > cutoff]
RecentPairs(dq, cutoff) ==
    LET InWindow(e) == e[1] > cutoff
    IN  SelectSeq(dq, InWindow)

\* [v for t, v in dq if t > cutoff]
RecentValues(dq, cutoff) ==
    LET r == RecentPairs(dq, cutoff)
    IN  [i \in 1..Len(r) |-> r[i][2]]

\* lines 210-213: an event is stored as a short liquidation when its side is
\* "BUY", else as a long liquidation, as the pair (time, usd_val)
IsShortLiq(e) == e.side = "BUY"
IsLongLiq(e) == e.side # "BUY"
PairsOf(es) == [i \in 1..Len(es) |-> <<es[i].time, es[i].usd_val>>]

\* the deque a side is stored in and read from: "BUY", else the other one
SideDeque(side, buys, sells) == IF side = "BUY" THEN buys ELSE sells

\* the check with the length test off by one: len(recent) > 2
SpikeFires_MinTwo(recent, usd_val) ==
    LET n    == Len(recent)
        base == SubSeq(recent, 1, n - 1)
    IN  /\ n > SPIKE_MIN_LEN - 1
        /\ SumSeq(base) > 0
        /\ usd_val * (n - 1) > SumSeq(base) * LIQUIDATION_SPIKE_MULT

\* the check with >= where the code has >
SpikeFires_NonStrict(recent, usd_val) ==
    LET n    == Len(recent)
        base == SubSeq(recent, 1, n - 1)
    IN  /\ n > SPIKE_MIN_LEN
        /\ SumSeq(base) > 0
        /\ usd_val * (n - 1) >= SumSeq(base) * LIQUIDATION_SPIKE_MULT

\* the check with a multiplier of 3
SpikeFires_MultThree(recent, usd_val) ==
    LET n    == Len(recent)
        base == SubSeq(recent, 1, n - 1)
    IN  /\ n > SPIKE_MIN_LEN
        /\ SumSeq(base) > 0
        /\ usd_val * (n - 1) > SumSeq(base) * 3

\* check_liquidation_spike, lines 239-241: recent is the window of the
\* event's side, read after the event was appended;
\* avg = np.mean(recent[:-1]) = SumSeq(base) / (n - 1)
SpikeFires(recent, usd_val) ==
    LET n    == Len(recent)
        base == SubSeq(recent, 1, n - 1)
    IN  /\ n > SPIKE_MIN_LEN
        /\ SumSeq(base) > 0
        /\ usd_val * (n - 1) > SumSeq(base) * LIQUIDATION_SPIKE_MULT

(***************************************************************************)
(* get_liquidation_summary, lines 297-323                                  *)
(***************************************************************************)
\* the average without the guard for an empty baseline
WindowAverage_NoSentinel(all) == [num |-> SumSeq(all), den |-> BASELINE_WINDOWS]

\* (sum(all) / 10) if all else 1, kept as numerator and denominator
WindowAverage(all) ==
    IF all # <<>> THEN [num |-> SumSeq(all), den |-> BASELINE_WINDOWS]
                  ELSE [num |-> 1, den |-> 1]

\* the flag with >= where the code has >
SpikeFlag_NonStrict(total, avg) == total * avg.den >= avg.num * LIQUIDATION_SPIKE_MULT

\* total > avg * LIQUIDATION_SPIKE_MULT
SpikeFlag(total, avg) == total * avg.den > avg.num * LIQUIDATION_SPIKE_MULT

\* buy_recent, sell_recent: the pairs read first (cutoff = now - 60);
\* all_buy, all_sell: the values read second (older_cutoff = now - 600)
Summarize(buy_recent, sell_recent, all_buy, all_sell) ==
    LET buy_total  == SumSeq([i \in 1..Len(buy_recent) |-> buy_recent[i][2]])
        sell_total == SumSeq([i \in 1..Len(sell_recent) |-> sell_recent[i][2]])
        avg_buy    == WindowAverage(all_buy)
        avg_sell   == WindowAverage(all_sell)
    IN  [buy_total  |-> buy_total,
         sell_total |-> sell_total,
         buy_count  |-> Len(buy_recent),
         sell_count |-> Len(sell_recent),
         buy_spike  |-> SpikeFlag(buy_total, avg_buy),
         sell_spike |-> SpikeFlag(sell_total, avg_sell),
         avg_buy    |-> avg_buy,
         avg_sell   |-> avg_sell]

(***************************************************************************)
(* run_analysis: the scoring engine, lines 346-449, and the decision,      *)
(* lines 483-504.  A metrics record holds what the pollers returned:       *)
(*   funding (0.00001), ls_ratio (0.01), oi_history (sequence of open      *)
(*   interest samples), bid_liq and ask_liq (SOL), vol_ratio (0.01),       *)
(*   rsi (points), price_chg_1h (0.1 %).                                   *)
(* Each scoring branch changes the score and appends at most one signal;   *)
(* a Branch records both: inc is what is added to score, sigs what is      *)
(* appended to signals (the printed label and the factor it belongs to).   *)
(***************************************************************************)
Branch(inc, label, factor) ==
    [inc |-> inc, sigs |-> <<[label |-> label, factor |-> factor]>>]
NoBranch == [inc |-> 0, sigs |-> <<>>]

\* lines 347-349: ZeroDivisionError when the first sample is 0
OiRaises(oi_history) == Len(oi_history) >= 2 /\ oi_history[1] = 0

\* lines 347-349: oi_change_pct as a fraction num/den, den > 0
OiChangePct(oi_history) ==
    IF Len(oi_history) >= 2
    THEN [num |-> (oi_history[Len(oi_history)] - oi_history[1]) * 100,
          den |-> oi_history[1]]
    ELSE [num |-> 0, den |-> 1]

\* 1. lines 360-367
FundingRule(m) ==
    IF m.funding < FUNDING_BEAR_THRESHOLD THEN Branch(2, "+2", "funding")
    ELSE IF m.funding > FUNDING_BULL_THRESHOLD THEN Branch(-2, "-2", "funding")
    ELSE Branch(0, " 0", "funding")

\* 2. lines 370-377
LsRatioRule(m) ==
    IF m.ls_ratio < LS_RATIO_SHORT_HEAVY THEN Branch(2, "+2", "ls_ratio")
    ELSE IF m.ls_ratio > LS_RATIO_LONG_HEAVY THEN Branch(-2, "-2", "ls_ratio")
    ELSE Branch(0, " 0", "ls_ratio")

\* 3. lines 380-387: oi_change_pct < -3.0, > 3.0
OiRule(m) ==
    LET c == OiChangePct(m.oi_history)
    IN  IF c.num < -3 * c.den THEN Branch(1, "+1", "open_interest")
        ELSE IF c.num > 3 * c.den THEN Branch(-1, "-1", "open_interest")
        ELSE Branch(0, " 0", "open_interest")

\* 4. lines 351, 390-394: avg_book_liq = (bid_liq + ask_liq) / 2
BookRule(m) ==
    IF m.bid_liq + m.ask_liq < 2 * ORDER_BOOK_THIN_THRESHOLD
    THEN Branch(1, "+1", "order_book")
    ELSE Branch(0, " 0", "order_book")

\* the volume rule with an else branch that reports a neutral signal
VolumeRule_WithElse(m) ==
    IF m.vol_ratio < VOLUME_LOW_RATIO THEN Branch(1, "+1", "volume")
    ELSE IF m.vol_ratio > VOLUME_SPIKE_RATIO THEN Branch(1, "+1", "volume")
    ELSE Branch(0, " 0", "volume")

\* 5. lines 397-402: no else branch
VolumeRule(m) ==
    IF m.vol_ratio < VOLUME_LOW_RATIO THEN Branch(1, "+1", "volume")
    ELSE IF m.vol_ratio > VOLUME_SPIKE_RATIO THEN Branch(1, "+1", "volume")
    ELSE NoBranch

\* the momentum rule with the mild test ahead of the strong one
RsiRule_MildFirst(m) ==
    IF m.rsi < 45 THEN Branch(1, "+1", "rsi")
    ELSE IF m.rsi < 30 THEN Branch(2, "+2", "rsi")
    ELSE IF m.rsi > 70 THEN Branch(-2, "-2", "rsi")
    ELSE IF m.rsi > 55 THEN Branch(-1, "-1", "rsi")
    ELSE Branch(0, " 0", "rsi")

\* 6. lines 405-418
RsiRule(m) ==
    IF m.rsi < 30 THEN Branch(2, "+2", "rsi")
    ELSE IF m.rsi > 70 THEN Branch(-2, "-2", "rsi")
    ELSE IF m.rsi < 45 THEN Branch(1, "+1", "rsi")
    ELSE IF m.rsi > 55 THEN Branch(-1, "-1", "rsi")
    ELSE Branch(0, " 0", "rsi")

\* 7. lines 421-428: price_chg_1h < -3.0, > 3.0
PriceRule(m) ==
    IF m.price_chg_1h < -30 THEN Branch(1, "+1", "price_change")
    ELSE IF m.price_chg_1h > 30 THEN Branch(-1, "-1", "price_change")
    ELSE Branch(0, " 0", "price_change")

\* 8. lines 431-439: no else branch
ShortLiqRule(liq_summary) ==
    IF liq_summary.buy_spike THEN Branch(2, "+2", "short_liq")
    ELSE IF liq_summary.buy_total > 0 THEN Branch(1, "+1", "short_liq")
    ELSE NoBranch

\* 8. lines 441-449: no else branch
LongLiqRule(liq_summary) ==
    IF liq_summary.sell_spike THEN Branch(-2, "-2", "long_liq")
    ELSE IF liq_summary.sell_total > 0 THEN Branch(-1, "-1", "long_liq")
    ELSE NoBranch

\* the branches taken, in the order lines 356-449 take them
Branches(m, liq_summary) ==
    <<FundingRule(m), LsRatioRule(m), OiRule(m), BookRule(m), VolumeRule(m),
      RsiRule(m), PriceRule(m), ShortLiqRule(liq_summary), LongLiqRule(liq_summary)>>

\* score after line 449
Score(m, liq_summary) ==
    LET b == Branches(m, liq_summary)
    IN  b[1].inc + b[2].inc + b[3].inc + b[4].inc + b[5].inc + b[6].inc
            + b[7].inc + b[8].inc + b[9].inc

\* signals after line 449
Signals(m, liq_summary) ==
    LET b == Branches(m, liq_summary)
    IN  b[1].sigs \o b[2].sigs \o b[3].sigs \o b[4].sigs \o b[5].sigs
            \o b[6].sigs \o b[7].sigs \o b[8].sigs \o b[9].sigs

\* the decision with the weak thresholds tested before the strong ones
Decision_WeakFirst(score) ==
    IF score >= 3 THEN "WEAK BUY"
    ELSE IF score <= -3 THEN "WEAK SELL"
    ELSE IF score >= MIN_BUY_SCORE THEN "BUY SIGNAL"
    ELSE IF score <= MIN_SELL_SCORE THEN "SELL / SHORT SIGNAL"
    ELSE "NEUTRAL"

\* lines 483-504
Decision(score) ==
    IF score >= MIN_BUY_SCORE THEN "BUY SIGNAL"
    ELSE IF score <= MIN_SELL_SCORE THEN "SELL / SHORT SIGNAL"
    ELSE IF score >= 3 THEN "WEAK BUY"
    ELSE IF score <= -3 THEN "WEAK SELL"
    ELSE "NEUTRAL"

\* what the pollers return when every request fails (lines 97-182)
DefaultMetrics ==
    [funding |-> 0, ls_ratio |-> 100, oi_history |-> <<>>, bid_liq |-> 0,
     ask_liq |-> 0, vol_ratio |-> 100, rsi |-> 50, price_chg_1h |-> 0]

(***************************************************************************)
(* State                                                                   *)
(***************************************************************************)
VARIABLES
    clock,              \* time.time()
    liquidation_log,    \* deque(maxlen=500) of event records
    liq_buy_amounts,    \* deque(maxlen=200) of <<time, usd_val>>
    liq_sell_amounts,   \* deque(maxlen=200) of <<time, usd_val>>
    liq_lock,           \* "free", or the thread holding it
    ws_pc,              \* position of the stream thread
    ws_local,           \* locals of on_liquidation_message / check_liquidation_spike
    last_check,         \* outcome of the latest check_liquidation_spike
    delivered,          \* messages handed to on_liquidation_message so far
    ingested,           \* history: every event appended so far, in order
    feed,               \* the environment: what the feed will send
    ticks,              \* clock steps taken so far
    an_pc,              \* position of the analysis (main) thread
    an_local,           \* locals of run_analysis / get_liquidation_summary
    analysis_out,       \* what the latest completed run_analysis produced
    ws_connected,       \* the global flag of lines 66, 252, 257, 262
    conn_pc,            \* position of the reconnect loop of start_websocket
    wake_at,            \* the clock value at which time.sleep(5) returns
    attempts            \* history: calls of ws.run_forever so far

vars == <<clock, liquidation_log, liq_buy_amounts, liq_sell_amounts, liq_lock,
          ws_pc, ws_local, last_check, delivered, ingested, feed, ticks,
          an_pc, an_local, analysis_out, ws_connected, conn_pc, wake_at,
          attempts>>

deques == <<liquidation_log, liq_buy_amounts, liq_sell_amounts>>
an_vars == <<an_pc, an_local, analysis_out>>
conn == <<ws_connected, conn_pc, wake_at, attempts>>

NoLocals ==
    [message |-> Undecodable, side |-> "", qty |-> 0, price |-> 0, usd_val |-> 0,
     now |-> 0, cutoff |-> 0]
NoCheck == [valid |-> FALSE, side |-> "", usd_val |-> 0, cutoff |-> 0, fired |-> FALSE]
FreeFeed == [kind |-> "free", k |-> 0, pat |-> 0]
\* seen_recent and seen_older are history: the two direction deques as they
\* were when get_liquidation_summary read them the first and the second time
NoneSeen == [buy |-> <<>>, sell |-> <<>>]
NoAnLocals ==
    [metrics |-> DefaultMetrics, cutoff |-> 0, older_cutoff |-> 0,
     buy_recent |-> <<>>, sell_recent |-> <<>>, seen_recent |-> NoneSeen]
NoAnalysis ==
    [done |-> FALSE, metrics |-> DefaultMetrics, now |-> 0,
     liq_summary |-> Summarize(<<>>, <<>>, <<>>, <<>>),
     score |-> 0, signals |-> <<>>, decision |-> "",
     seen_recent |-> NoneSeen, seen_older |-> NoneSeen]

\* the state once the first connection is open and before any message
InitWith(f) ==
    /\ ws_connected = TRUE
    /\ conn_pc = "open"
    /\ wake_at = 0
    /\ attempts = 1
    /\ clock = 0
    /\ liquidation_log = <<>>
    /\ liq_buy_amounts = <<>>
    /\ liq_sell_amounts = <<>>
    /\ liq_lock = "free"
    /\ ws_pc = "idle"
    /\ ws_local = NoLocals
    /\ last_check = NoCheck
    /\ delivered = 0
    /\ ingested = <<>>
    /\ feed = f
    /\ ticks = 0
    /\ an_pc = "idle"
    /\ an_local = NoAnLocals
    /\ analysis_out = NoAnalysis

\* lines 545-549: an exception that leaves run_analysis leaves main too (only
\* KeyboardInterrupt is caught); the process ends and takes the daemon
\* stream thread with it
ProcessAlive == an_pc # "crashed"

(***************************************************************************)
(* Stream thread: on_liquidation_message and check_liquidation_spike       *)
(***************************************************************************)
\* lines 190-206 and 227-228: decode; a raised exception drops the message
on_liquidation_message(m) ==
    /\ ProcessAlive
    /\ ws_pc = "idle"
    /\ delivered' = delivered + 1
    /\ IF DecodeRaises(m)
       THEN UNCHANGED <<ws_pc, ws_local>>
       ELSE /\ ws_local' = [message |-> m,
                            side    |-> m.S,
                            qty     |-> Float(m.q),
                            price   |-> Float(m.p),
                            usd_val |-> Float(m.q) * Float(m.p),
                            now     |-> clock,
                            cutoff  |-> 0]
            /\ ws_pc' = "ing_lock"
    /\ UNCHANGED <<conn, clock, deques, liq_lock, last_check, ingested, feed, ticks, an_vars>>

\* the lock taken without waiting for it to be free
ingest_acquire_NoWait ==
    /\ ProcessAlive
    /\ ws_pc = "ing_lock"
    /\ liq_lock' = "stream"
    /\ ws_pc' = "ing_body"
    /\ UNCHANGED <<conn, clock, deques, ws_local, last_check, delivered, ingested, feed, ticks, an_vars>>

\* line 208: with liq_lock (acquire)
ingest_acquire ==
    /\ ProcessAlive
    /\ ws_pc = "ing_lock"
    /\ liq_lock = "free"
    /\ liq_lock' = "stream"
    /\ ws_pc' = "ing_body"
    /\ UNCHANGED <<conn, clock, deques, ws_local, last_check, delivered, ingested, feed, ticks, an_vars>>

\* lines 209-213: the appends, then the lock is released
ingest_append ==
    /\ ProcessAlive
    /\ ws_pc = "ing_body"
    /\ LET event == [time    |-> ws_local.now,
                     side    |-> ws_local.side,
                     qty     |-> ws_local.qty,
                     price   |-> ws_local.price,
                     usd_val |-> ws_local.usd_val]
           pair  == <<ws_local.now, ws_local.usd_val>>
       IN  /\ liquidation_log' = DequeAppend(liquidation_log, event, LOG_MAXLEN)
           /\ IF ws_local.side = "BUY"
              THEN /\ liq_buy_amounts' = DequeAppend(liq_buy_amounts, pair, BUY_MAXLEN)
                   /\ UNCHANGED liq_sell_amounts
              ELSE /\ liq_sell_amounts' = DequeAppend(liq_sell_amounts, pair, SELL_MAXLEN)
                   /\ UNCHANGED liq_buy_amounts
           /\ ingested' = Append(ingested, event)
    /\ liq_lock' = "free"
    /\ ws_pc' = "chk_lock"
    /\ UNCHANGED <<conn, clock, ws_local, last_check, delivered, feed, ticks, an_vars>>

\* lines 225, 232-233: the call, cutoff = time.time() - 60, with liq_lock
check_acquire ==
    /\ ProcessAlive
    /\ ws_pc = "chk_lock"
    /\ liq_lock = "free"
    /\ liq_lock' = "stream"
    /\ ws_local' = [ws_local EXCEPT !.cutoff = clock - LIQUIDATION_WINDOW_SEC]
    /\ ws_pc' = "chk_body"
    /\ UNCHANGED <<conn, clock, deques, last_check, delivered, ingested, feed, ticks, an_vars>>

\* lines 234-248: read the window under the lock, release, decide the alert
check_liquidation_spike ==
    /\ ProcessAlive
    /\ ws_pc = "chk_body"
    /\ LET recent == RecentValues(
                        SideDeque(ws_local.side, liq_buy_amounts, liq_sell_amounts),
                        ws_local.cutoff)
       IN  last_check' = [valid   |-> TRUE,
                          side    |-> ws_local.side,
                          usd_val |-> ws_local.usd_val,
                          cutoff  |-> ws_local.cutoff,
                          fired   |-> SpikeFires(recent, ws_local.usd_val)]
    /\ liq_lock' = "free"
    /\ ws_local' = NoLocals
    /\ ws_pc' = "idle"
    /\ UNCHANGED <<conn, clock, deques, delivered, ingested, feed, ticks, an_vars>>

StreamStep ==
    \/ ingest_acquire
    \/ ingest_append
    \/ check_acquire
    \/ check_liquidation_spike

(***************************************************************************)
(* Analysis thread: run_analysis and get_liquidation_summary               *)
(***************************************************************************)
\* lines 336-343: the pollers return mt
run_analysis_fetch(mt) ==
    /\ an_pc = "idle"
    /\ an_local' = [NoAnLocals EXCEPT !.metrics = mt]
    /\ an_pc' = "sum_lock1"
    /\ UNCHANGED <<conn, clock, deques, liq_lock, ws_pc, ws_local, last_check,
                   delivered, ingested, feed, ticks, analysis_out>>

\* lines 292-293: cutoff = time.time() - 60, with liq_lock
summary_acquire_recent ==
    /\ an_pc = "sum_lock1"
    /\ liq_lock = "free"
    /\ liq_lock' = "analysis"
    /\ an_local' = [an_local EXCEPT !.cutoff = clock - LIQUIDATION_WINDOW_SEC]
    /\ an_pc' = "sum_body1"
    /\ UNCHANGED <<conn, clock, deques, ws_pc, ws_local, last_check, delivered,
                   ingested, feed, ticks, analysis_out>>

\* lines 294-295: the recent pairs of both sides, then the lock is released
summary_read_recent ==
    /\ an_pc = "sum_body1"
    /\ an_local' = [an_local EXCEPT
                      !.buy_recent  = RecentPairs(liq_buy_amounts, an_local.cutoff),
                      !.sell_recent = RecentPairs(liq_sell_amounts, an_local.cutoff),
                      !.seen_recent = [buy |-> liq_buy_amounts, sell |-> liq_sell_amounts]]
    /\ liq_lock' = "free"
    /\ an_pc' = "sum_lock2"
    /\ UNCHANGED <<conn, clock, deques, ws_pc, ws_local, last_check, delivered,
                   ingested, feed, ticks, analysis_out>>

\* lines 303-304: older_cutoff = time.time() - 60 * 10, with liq_lock
summary_acquire_older ==
    /\ an_pc = "sum_lock2"
    /\ liq_lock = "free"
    /\ liq_lock' = "analysis"
    /\ an_local' = [an_local EXCEPT
                      !.older_cutoff = clock - LIQUIDATION_WINDOW_SEC * BASELINE_WINDOWS]
    /\ an_pc' = "sum_body2"
    /\ UNCHANGED <<conn, clock, deques, ws_pc, ws_local, last_check, delivered,
                   ingested, feed, ticks, analysis_out>>

\* lines 305-323 and 346-508: the older values of both sides, the lock is
\* released, the summary is returned, then the score, the signals and the
\* decision; a ZeroDivisionError at line 349 leaves run_analysis and main
run_analysis_score ==
    /\ an_pc = "sum_body2"
    /\ liq_lock' = "free"
    /\ LET all_buy     == RecentValues(liq_buy_amounts, an_local.older_cutoff)
           all_sell    == RecentValues(liq_sell_amounts, an_local.older_cutoff)
           liq_summary == Summarize(an_local.buy_recent, an_local.sell_recent,
                                    all_buy, all_sell)
           m           == an_local.metrics
       IN  IF OiRaises(m.oi_history)
           THEN /\ an_pc' = "crashed"
                /\ UNCHANGED analysis_out
           ELSE /\ an_pc' = "idle"
                /\ analysis_out' =
                     [done        |-> TRUE,
                      metrics     |-> m,
                      now         |-> clock,
                      liq_summary |-> liq_summary,
                      score       |-> Score(m, liq_summary),
                      signals     |-> Signals(m, liq_summary),
                      decision    |-> Decision(Score(m, liq_summary)),
                      seen_recent |-> an_local.seen_recent,
                      seen_older  |-> [buy  |-> liq_buy_amounts,
                                       sell |-> liq_sell_amounts]]
    /\ an_local' = NoAnLocals
    /\ UNCHANGED <<conn, clock, deques, ws_pc, ws_local, last_check, delivered,
                   ingested, feed, ticks>>

AnalysisStep ==
    \/ summary_acquire_recent
    \/ summary_read_recent
    \/ summary_acquire_older
    \/ run_analysis_score

(***************************************************************************)
(* Stream thread: the reconnect loop of start_websocket.  ws.run_forever   *)
(* belongs to the websocket library; it is modelled by what the loop and   *)
(* the callbacks can observe of it: it calls on_open, on_message, on_error *)
(* and on_close from the loop's own thread, one at a time, and it ends by  *)
(* returning or by raising.                                                *)
(***************************************************************************)
\* everything but the connection state and the clock
threads == <<deques, liq_lock, ws_pc, ws_local, last_check, delivered, ingested,
             feed, ticks, an_vars>>

\* lines 269-279: a fresh WebSocketApp, ws.run_forever is called
ws_run_forever ==
    /\ ProcessAlive
    /\ conn_pc = "loop"
    /\ conn_pc' = "connecting"
    /\ attempts' = attempts + 1
    /\ UNCHANGED <<ws_connected, wake_at, clock, threads>>

\* lines 250-253
on_ws_open ==
    /\ ProcessAlive
    /\ conn_pc = "connecting"
    /\ ws_connected' = TRUE
    /\ conn_pc' = "open"
    /\ UNCHANGED <<wake_at, attempts, clock, threads>>

\* lines 255-258
on_ws_error ==
    /\ ProcessAlive
    /\ conn_pc \in {"connecting", "open"}
    /\ ws_pc = "idle"
    /\ ws_connected' = FALSE
    /\ conn_pc' = "errored"
    /\ UNCHANGED <<wake_at, attempts, clock, threads>>

\* lines 260-263, then ws.run_forever returns and time.sleep(5) begins (283)
on_ws_close ==
    /\ ProcessAlive
    /\ conn_pc \in {"connecting", "open", "errored"}
    /\ ws_pc = "idle"
    /\ ws_connected' = FALSE
    /\ conn_pc' = "sleeping"
    /\ wake_at' = clock + RECONNECT_DELAY
    /\ UNCHANGED <<attempts, clock, threads>>

\* lines 281-283: ws.run_forever raises, the except clause prints, and
\* time.sleep(5) begins; ws_connected is not assigned
run_forever_raises ==
    /\ ProcessAlive
    /\ conn_pc \in {"connecting", "open", "errored"}
    /\ ws_pc = "idle"
    /\ conn_pc' = "sleeping"
    /\ wake_at' = clock + RECONNECT_DELAY
    /\ UNCHANGED <<ws_connected, attempts, clock, threads>>

\* line 283 back to line 269: time.sleep(5) has returned
reconnect_wake ==
    /\ ProcessAlive
    /\ conn_pc = "sleeping"
    /\ clock >= wake_at
    /\ conn_pc' = "loop"
    /\ UNCHANGED <<ws_connected, wake_at, attempts, clock, threads>>

\* the clock advances by d seconds, a handler call under way or not
Advance(d) ==
    /\ d > 0
    /\ clock' = clock + d
    /\ ticks' = ticks + 1
    /\ UNCHANGED <<conn, deques, liq_lock, ws_pc, ws_local, last_check,
                   delivered, ingested, feed, an_vars>>

\* the reconnect delay runs out
sleep_elapses ==
    /\ conn_pc = "sleeping"
    /\ clock < wake_at
    /\ clock' = wake_at
    /\ UNCHANGED <<conn, threads>>

\* lines 483-504 alone: the decision branch taken for a total of score
decide(score) ==
    /\ an_pc = "idle"
    /\ analysis_out' = [NoAnalysis EXCEPT !.done = TRUE,
                                          !.score = score,
                                          !.decision = Decision(score)]
    /\ UNCHANGED <<conn, clock, deques, liq_lock, ws_pc, ws_local, last_check,
                   delivered, ingested, feed, ticks, an_pc, an_local>>

\* the clock advances by d seconds while no handler call is under way
Tick(d) ==
    /\ ws_pc = "idle"
    /\ an_pc = "idle"
    /\ d > 0
    /\ clock' = clock + d
    /\ ticks' = ticks + 1
    /\ UNCHANGED <<conn, deques, liq_lock, ws_pc, ws_local, last_check,
                   delivered, ingested, feed, an_vars>>

(***************************************************************************)
(* SpecSpike: the stream thread alone, fed short sequences of messages     *)
(* that arrive inside and outside one spike window.                        *)
(***************************************************************************)
SpikeMsgs ==
    {Msg("BUY", q, Num(1)) : q \in {Absent, Num(1), Num(2), Num(3)}}
        \cup {Msg("SELL", Num(1), Num(1)), Undecodable}

SpikeDeliver ==
    /\ delivered < MaxMsgs
    /\ \E m \in SpikeMsgs : on_liquidation_message(m)

SpikeTick ==
    /\ clock + LIQUIDATION_WINDOW_SEC <= MaxTime
    /\ Tick(LIQUIDATION_WINDOW_SEC)

InitSpike == InitWith(FreeFeed)
NextSpike == SpikeDeliver \/ StreamStep \/ SpikeTick
SpecSpike == InitSpike /\ [][NextSpike]_vars

(***************************************************************************)
(* Spec: both threads, interleaved at every lock acquisition, with a few   *)
(* messages, clock steps of one window and of nine windows, and a poll     *)
(* result that is all defaults or carries an open-interest history that    *)
(* starts at 0.                                                            *)
(***************************************************************************)
FeedMsgs ==
    {Msg("BUY", Num(1), Num(1)), Msg("BUY", Num(4), Num(1)),
     Msg("SELL", Num(4), Num(1)), Msg("", Absent, Absent), Undecodable}

PollResults ==
    {DefaultMetrics, [DefaultMetrics EXCEPT !.oi_history = <<0, 5>>]}

Deliver ==
    /\ delivered < MaxIngest
    /\ \E m \in FeedMsgs : on_liquidation_message(m)

Analyse ==
    /\ an_pc = "idle"
    /\ \E mt \in PollResults : run_analysis_fetch(mt)

ClockTick ==
    /\ ticks < MaxTicks
    /\ \E d \in {LIQUIDATION_WINDOW_SEC, 9 * LIQUIDATION_WINDOW_SEC} : Tick(d)

Init == InitWith(FreeFeed)
Next == Deliver \/ StreamStep \/ Analyse \/ AnalysisStep \/ ClockTick
Spec == Init /\ [][Next]_vars

(***************************************************************************)
(* SpecFifo: the stream thread alone, fed a long run of well-formed        *)
(* messages, enough to overflow all three deques.  The feed follows one    *)
(* of four side patterns, chosen at the start; message i carries           *)
(* quantity i, so every event is distinguishable.                          *)
(***************************************************************************)
FifoSide(pat, i) ==
    CASE pat = 0 -> "BUY"
      [] pat = 1 -> "SELL"
      [] pat = 2 -> IF i % 2 = 0 THEN "BUY" ELSE "SELL"
      [] OTHER   -> IF i % 3 = 0 THEN "SELL" ELSE "BUY"

FifoMsg(f, i) == Msg(FifoSide(f.pat, i), Num(i), Num(1))

FifoDeliver ==
    /\ delivered < MaxFeed
    /\ on_liquidation_message(FifoMsg(feed, delivered + 1))

InitFifo == \E pat \in 0..3 : InitWith([kind |-> "fifo", k |-> 0, pat |-> pat])
NextFifo == FifoDeliver \/ StreamStep
SpecFifo == InitFifo /\ [][NextFifo]_vars

(***************************************************************************)
(* SpecBurst: the stream thread alone, fed the burst scenario: 20 prior    *)
(* short liquidations averaging 5000, then 5 of 20000 each within 10 s.    *)
(* feed.k of the prior events arrive inside the 60 s before the fifth      *)
(* burst event (at 590 s), the others earlier inside the 600 s before it   *)
(* (at 100 s); the burst events arrive at 600, 602, ..., 608 s.  feed.pat  *)
(* 0: every prior event is 5000; feed.pat 1: they alternate 2500 and 7500. *)
(***************************************************************************)
BurstTime(f, i) ==
    IF i <= 20 - f.k THEN 100
    ELSE IF i <= 20 THEN 590
    ELSE 600 + 2 * (i - 21)

BurstValue(f, i) ==
    IF i > 20 THEN 20000
    ELSE IF f.pat = 0 THEN 5000
    ELSE IF i % 2 = 0 THEN 7500 ELSE 2500

BurstMsg(f, i) == Msg("BUY", Num(BurstValue(f, i)), Num(1))

BurstDeliver ==
    /\ delivered < 25
    /\ clock = BurstTime(feed, delivered + 1)
    /\ on_liquidation_message(BurstMsg(feed, delivered + 1))

BurstTick ==
    /\ delivered < 25
    /\ clock < BurstTime(feed, delivered + 1)
    /\ Tick(BurstTime(feed, delivered + 1) - clock)

InitBurst ==
    \E k \in 0..20, pat \in 0..1 : InitWith([kind |-> "burst", k |-> k, pat |-> pat])
NextBurst == BurstDeliver \/ StreamStep \/ BurstTick
SpecBurst == InitBurst /\ [][NextBurst]_vars

(***************************************************************************)
(* SpecScore: one analysis cycle of the main thread over every             *)
(* combination of poll results of MetricGrid, started in a state the       *)
(* stream thread has left behind: per direction no event ("none"), an      *)
(* older event of 40000 and a recent one of 10000 ("active"), or one       *)
(* recent event of 50000 ("spike").                                        *)
(***************************************************************************)
Ev(t, side, v) == [time |-> t, side |-> side, qty |-> v, price |-> 1, usd_val |-> v]

PresetEvents(b, s) ==
    (IF b = "active" THEN <<Ev(300, "BUY", 40000)>> ELSE <<>>)
    \o (IF s = "active" THEN <<Ev(300, "SELL", 40000)>> ELSE <<>>)
    \o (IF b = "active" THEN <<Ev(690, "BUY", 10000)>>
        ELSE IF b = "spike" THEN <<Ev(690, "BUY", 50000)>> ELSE <<>>)
    \o (IF s = "active" THEN <<Ev(690, "SELL", 10000)>>
        ELSE IF s = "spike" THEN <<Ev(690, "SELL", 50000)>> ELSE <<>>)

\* scenario 2 of the specification: every metric neutral
NeutralMetrics ==
    [funding |-> 0, ls_ratio |-> 100, oi_history |-> <<100, 100>>,
     bid_liq |-> 10000, ask_liq |-> 10000, vol_ratio |-> 100, rsi |-> 50,
     price_chg_1h |-> 0]

\* scenario 1 of the specification: funding -0.0008, ratio 0.85, open
\* interest -4 %, depth 3000, volume ratio 0.4, momentum 25, price -4 %
BullishMetrics ==
    [funding |-> -80, ls_ratio |-> 85, oi_history |-> <<100, 96>>,
     bid_liq |-> 3000, ask_liq |-> 3000, vol_ratio |-> 40, rsi |-> 25,
     price_chg_1h |-> -40]

CoarseGrid ==
    [funding : {-80, 0, 80}, ls_ratio : {85, 100, 115},
     oi_history : {<<100, 96>>, <<100, 100>>, <<100, 104>>},
     bid_liq : {3000, 10000}, ask_liq : {3000},
     vol_ratio : {40, 100, 250}, rsi : {25, 40, 50, 60, 75},
     price_chg_1h : {-40, 0, 40}]

\* every threshold met exactly, one metric at a time
BoundaryGrid ==
    {[NeutralMetrics EXCEPT !.funding = v] : v \in {-50, 50}}
    \cup {[NeutralMetrics EXCEPT !.ls_ratio = v] : v \in {90, 110}}
    \cup {[NeutralMetrics EXCEPT !.oi_history = v] : v \in {<<100, 97>>, <<100, 103>>, <<>>}}
    \cup {[NeutralMetrics EXCEPT !.bid_liq = v, !.ask_liq = v] : v \in {0, 5000}}
    \cup {[NeutralMetrics EXCEPT !.vol_ratio = v] : v \in {50, 200}}
    \cup {[NeutralMetrics EXCEPT !.rsi = v] : v \in {30, 45, 55, 70}}
    \cup {[NeutralMetrics EXCEPT !.price_chg_1h = v] : v \in {-30, 30}}

MetricGrid == CoarseGrid \cup BoundaryGrid \cup {NeutralMetrics, BullishMetrics}

InitScore ==
    \E b \in {"none", "active", "spike"}, s \in {"none", "active", "spike"} :
        LET es == PresetEvents(b, s)
        IN  /\ clock = 700
            /\ liquidation_log = es
            /\ liq_buy_amounts = PairsOf(SelectSeq(es, IsShortLiq))
            /\ liq_sell_amounts = PairsOf(SelectSeq(es, IsLongLiq))
            /\ liq_lock = "free"
            /\ ws_pc = "idle"
            /\ ws_local = NoLocals
            /\ last_check = NoCheck
            /\ delivered = Len(es)
            /\ ingested = es
            /\ feed = [kind |-> "score", k |-> 0, pat |-> 0]
            /\ ticks = 0
            /\ an_pc = "idle"
            /\ an_local = NoAnLocals
            /\ analysis_out = NoAnalysis
            /\ ws_connected = TRUE
            /\ conn_pc = "open"
            /\ wake_at = 0
            /\ attempts = 1

ScoreAnalyse ==
    /\ an_pc = "idle"
    /\ ~analysis_out.done
    /\ \E mt \in MetricGrid : run_analysis_fetch(mt)

NextScore == ScoreAnalyse \/ AnalysisStep
SpecScore == InitScore /\ [][NextScore]_vars

(***************************************************************************)
(* SpecPoll: one analysis cycle in which every subset of the pollers has   *)
(* failed.  A poller whose request failed returns its default (lines 99,   *)
(* 105, 114, 130, 138, 151, 170, 182); the others return a value that      *)
(* scores, and the open-interest poller also a history that begins with 0. *)
(* current_price (default 0.0) is only printed.                            *)
(***************************************************************************)
LiveMetrics ==
    [funding |-> 80, ls_ratio |-> 115, oi_history |-> <<100, 104>>,
     bid_liq |-> 10000, ask_liq |-> 10000, vol_ratio |-> 250, rsi |-> 75,
     price_chg_1h |-> 40]

FailureGrid ==
    {[funding |-> f, ls_ratio |-> l, oi_history |-> o, bid_liq |-> d,
      ask_liq |-> d, vol_ratio |-> v, rsi |-> r, price_chg_1h |-> c] :
        f \in {DefaultMetrics.funding, LiveMetrics.funding},
        l \in {DefaultMetrics.ls_ratio, LiveMetrics.ls_ratio},
        o \in {DefaultMetrics.oi_history, LiveMetrics.oi_history, <<0, 5>>},
        d \in {DefaultMetrics.bid_liq, LiveMetrics.bid_liq},
        v \in {DefaultMetrics.vol_ratio, LiveMetrics.vol_ratio},
        r \in {DefaultMetrics.rsi, LiveMetrics.rsi},
        c \in {DefaultMetrics.price_chg_1h, LiveMetrics.price_chg_1h}}

PollAnalyse ==
    /\ an_pc = "idle"
    /\ ~analysis_out.done
    /\ \E mt \in FailureGrid : run_analysis_fetch(mt)

NextPoll == PollAnalyse \/ AnalysisStep
SpecPoll == InitScore /\ [][NextPoll]_vars

(***************************************************************************)
(* SpecDecide: the decision branch of run_analysis applied once to every   *)
(* total from -MaxAbsScore to MaxAbsScore.                                 *)
(***************************************************************************)
InitDecide == InitWith([kind |-> "decide", k |-> 0, pat |-> 0])

DecideOnce ==
    /\ ~analysis_out.done
    /\ \E score \in -MaxAbsScore..MaxAbsScore : decide(score)

NextDecide == DecideOnce
SpecDecide == InitDecide /\ [][NextDecide]_vars

(***************************************************************************)
(* SpecConn: the reconnect loop from the start of the stream thread, the   *)
(* message handler while a connection is open, and the analysis thread,    *)
(* with a clock that also advances while a handler call is under way.      *)
(***************************************************************************)
ConnMsgs == {Msg("BUY", Num(1), Num(1)), Msg("SELL", Num(1), Num(1))}

InitConn ==
    /\ ws_connected = FALSE
    /\ conn_pc = "loop"
    /\ wake_at = 0
    /\ attempts = 0
    /\ clock = 0
    /\ liquidation_log = <<>>
    /\ liq_buy_amounts = <<>>
    /\ liq_sell_amounts = <<>>
    /\ liq_lock = "free"
    /\ ws_pc = "idle"
    /\ ws_local = NoLocals
    /\ last_check = NoCheck
    /\ delivered = 0
    /\ ingested = <<>>
    /\ feed = [kind |-> "conn", k |-> 0, pat |-> 0]
    /\ ticks = 0
    /\ an_pc = "idle"
    /\ an_local = NoAnLocals
    /\ analysis_out = NoAnalysis

\* the connection is lost, or fails to open, while attempts remain
ConnDrop ==
    /\ attempts < MaxAttempts \/ conn_pc = "errored"
    /\ (on_ws_error \/ on_ws_close \/ run_forever_raises)

ConnDeliver ==
    /\ conn_pc = "open"
    /\ delivered < MaxConnMsgs
    /\ \E m \in ConnMsgs : on_liquidation_message(m)

ConnAnalyse ==
    /\ an_pc = "idle"
    /\ ~analysis_out.done
    /\ \E mt \in PollResults : run_analysis_fetch(mt)

ConnTick ==
    /\ ticks < MaxConnTicks
    /\ Advance(LIQUIDATION_WINDOW_SEC)

ConnStep ==
    \/ ws_run_forever
    \/ on_ws_open
    \/ reconnect_wake
    \/ sleep_elapses

NextConn ==
    \/ ConnStep
    \/ ConnDrop
    \/ ConnDeliver
    \/ StreamStep
    \/ ConnAnalyse
    \/ AnalysisStep
    \/ ConnTick

SpecConn == InitConn /\ [][NextConn]_vars

(***************************************************************************)
(* SpecLive: SpecConn with fewer messages and disconnects and a clock that *)
(* moves only to end the reconnect delay, under the scheduling the two     *)
(* threads have: a thread that can take a step eventually takes it (the    *)
(* interpreter switches threads; a handler call and an analysis cycle run  *)
(* straight-line code between lock acquisitions), and time.sleep returns.  *)
(***************************************************************************)
LiveDrop ==
    /\ attempts < MaxLiveAttempts \/ conn_pc = "errored"
    /\ (on_ws_error \/ on_ws_close \/ run_forever_raises)

LiveDeliver ==
    /\ conn_pc = "open"
    /\ delivered < MaxLiveMsgs
    /\ on_liquidation_message(Msg("BUY", Num(1), Num(1)))

NextLive ==
    \/ ConnStep
    \/ LiveDrop
    \/ LiveDeliver
    \/ StreamStep
    \/ ConnAnalyse
    \/ AnalysisStep

SpecLive ==
    /\ InitConn
    /\ [][NextLive]_vars
    /\ WF_vars(ConnStep)
    /\ WF_vars(StreamStep)
    /\ WF_vars(AnalysisStep)

(***************************************************************************)
(* SpecCover: more messages of one direction than its deque holds, then    *)
(* one analysis cycle, the two threads taking turns.  feed.pat 0: short    *)
(* liquidations, 1: long liquidations.  feed.k 0: the first CoverOld       *)
(* messages arrive at 0 s and the others at 600 s, so at most 200 events   *)
(* are ever younger than 600 s; feed.k 1: all arrive at 0 s.  Message i    *)
(* carries quantity i.  The cycle starts after any message, at the time of *)
(* the last message or 60 s later.                                         *)
(***************************************************************************)
CoverMsg(f, i) == Msg(IF f.pat = 0 THEN "BUY" ELSE "SELL", Num(i), Num(1))

\* the time at which message i arrives
CoverTime(f, i) ==
    IF f.k = 0 /\ i > CoverOld THEN LIQUIDATION_WINDOW_SEC * BASELINE_WINDOWS ELSE 0

CoverDeliver ==
    /\ delivered < MaxCover
    /\ an_pc = "idle"
    /\ ~analysis_out.done
    /\ clock = CoverTime(feed, delivered + 1)
    /\ on_liquidation_message(CoverMsg(feed, delivered + 1))

\* the gap between the old messages and the others
CoverGap ==
    /\ delivered < MaxCover
    /\ clock < CoverTime(feed, delivered + 1)
    /\ Tick(CoverTime(feed, delivered + 1) - clock)

\* the analysis cycle starts one window after the last message
CoverWait ==
    /\ delivered >= 1
    /\ clock = CoverTime(feed, delivered)
    /\ ~analysis_out.done
    /\ Tick(LIQUIDATION_WINDOW_SEC)

CoverAnalyse ==
    /\ an_pc = "idle"
    /\ ws_pc = "idle"
    /\ ~analysis_out.done
    /\ run_analysis_fetch(DefaultMetrics)

InitCover ==
    \E k \in 0..1, pat \in 0..1 : InitWith([kind |-> "cover", k |-> k, pat |-> pat])
NextCover ==
    CoverDeliver \/ StreamStep \/ CoverGap \/ CoverWait \/ CoverAnalyse \/ AnalysisStep
SpecCover == InitCover /\ [][NextCover]_vars

(***************************************************************************)
(* Properties                                                              *)
(***************************************************************************)
RECURSIVE SumAt(_, _)
\* the sum of the values of the entries of dq at the indices in I
SumAt(dq, I) ==
    IF I = {} THEN 0
    ELSE LET i == CHOOSE j \in I : TRUE
         IN  dq[i][2] + SumAt(dq, I \ {i})

\* the latest event was appended and checked and nothing was appended since
CheckSettled == ws_pc = "idle" /\ last_check.valid
\* the deque of the checked event's direction; its last entry is that event
CheckedDeque == SideDeque(last_check.side, liq_buy_amounts, liq_sell_amounts)
\* the baseline samples: the other entries of that direction inside the window
BaselineIdx ==
    {i \in 1..(Len(CheckedDeque) - 1) : CheckedDeque[i][1] > last_check.cutoff}
BaselineCount == Cardinality(BaselineIdx)
BaselineSum == SumAt(CheckedDeque, BaselineIdx)

\* C2 as stated: with fewer than 4 baseline samples (entries of the event's
\* direction inside the 60 s window, the event itself not counted) the
\* per-event check never emits an alert.
C2_NoAlertBelowFourSamples ==
    (CheckSettled /\ BaselineCount < 4) => ~last_check.fired

\* C2 amended: the check never emits an alert when the window holds fewer
\* than 4 entries of the direction counting the event itself, that is with
\* fewer than 3 baseline samples.
C2_NoAlertBelowThreeSamples ==
    (CheckSettled /\ BaselineCount < SPIKE_MIN_LEN) => ~last_check.fired

\* two baseline samples that the event exceeds more than twice over
C2_Witness ==
    /\ CheckSettled
    /\ BaselineCount = 2
    /\ BaselineSum > 0
    /\ last_check.usd_val * BaselineCount > BaselineSum * 2
    /\ ~last_check.fired

LastN(s, n) == IF Len(s) > n THEN SubSeq(s, Len(s) - n + 1, Len(s)) ELSE s

\* C1: no deque exceeds its capacity (500, 200, 200), and each holds
\* exactly the most recent `capacity` events (of its direction) ingested
\* so far, in ingestion order.
C1_FifoEviction ==
    /\ Len(liquidation_log) <= 500
    /\ Len(liq_buy_amounts) <= 200
    /\ Len(liq_sell_amounts) <= 200
    /\ liquidation_log = LastN(ingested, 500)
    /\ liq_buy_amounts = LastN(PairsOf(SelectSeq(ingested, IsShortLiq)), 200)
    /\ liq_sell_amounts = LastN(PairsOf(SelectSeq(ingested, IsLongLiq)), 200)

\* more than capacity events of each direction and overall were ingested
C1_Witness ==
    /\ Len(ingested) > 500
    /\ Len(SelectSeq(ingested, IsShortLiq)) > 200
    /\ Len(SelectSeq(ingested, IsLongLiq)) > 200
    /\ Len(liq_buy_amounts) = 200
    /\ Len(liq_sell_amounts) = 200
    /\ Len(liquidation_log) = 500

\* the fifth burst event was appended and checked
BurstChecked == delivered = 25 /\ CheckSettled /\ Len(ingested) = 25
\* the prior events that lie inside the 60 s before the fifth burst event
PriorInWindow ==
    {i \in 1..20 : ingested[i].time > ingested[25].time - LIQUIDATION_WINDOW_SEC}

\* C4 as stated: wherever the 20 prior events lie in the 600 s before the
\* burst, the check of the fifth burst event emits an alert.
C4_FifthBurstEventAlerts == BurstChecked => last_check.fired

\* C4 amended: the check of the fifth burst event emits an alert when all
\* 20 prior events lie inside the 60 s before it, and none when all of
\* them are older than that.
C4_FifthBurstEventAlertsIfPriorsInWindow ==
    BurstChecked =>
        /\ Cardinality(PriorInWindow) = 20 => last_check.fired
        /\ Cardinality(PriorInWindow) = 0 => ~last_check.fired

\* the alert of the fifth burst event over all 20 prior events in the window
C4_Witness ==
    /\ BurstChecked
    /\ Cardinality(PriorInWindow) = 20
    /\ last_check.fired

\* the indices of the entries of dq newer than cutoff
NewerIdx(dq, cutoff) == {i \in 1..Len(dq) : dq[i][1] > cutoff}
\* of a completed summary: the entries inside the recent 60 s window and
\* inside the 600 s baseline window, at the time of the call
RecentIdx(dq) == NewerIdx(dq, analysis_out.now - 60)
BaseIdx(dq) == NewerIdx(dq, analysis_out.now - 600)
\* the entries of the baseline window that precede the recent window
PrecedingIdx(dq) == BaseIdx(dq) \ RecentIdx(dq)

\* the fields of a completed summary, per direction; d1 and d2 are the
\* direction's deque at the first and at the second read
SummaryOf(dir) ==
    LET o == analysis_out
        l == o.liq_summary
    IN  IF dir = "short"
        THEN [total |-> l.buy_total, count |-> l.buy_count, spike |-> l.buy_spike,
              avg |-> l.avg_buy, d1 |-> o.seen_recent.buy, d2 |-> o.seen_older.buy]
        ELSE [total |-> l.sell_total, count |-> l.sell_count, spike |-> l.sell_spike,
              avg |-> l.avg_sell, d1 |-> o.seen_recent.sell, d2 |-> o.seen_older.sell]
Directions == {"short", "long"}

\* C5: a direction with no event in its baseline window (age below 600 s)
\* is never reported as spiking, and its average is the sentinel 1.
C5_NoBaselineNoSpike ==
    analysis_out.done =>
        \A dir \in Directions :
            LET r == SummaryOf(dir)
            IN  BaseIdx(r.d2) = {} => (~r.spike /\ r.avg.num = r.avg.den)

\* a summary over a deque whose entries have all left the baseline window
C5_Witness ==
    /\ analysis_out.done
    /\ analysis_out.seen_older.buy # <<>>
    /\ BaseIdx(analysis_out.seen_older.buy) = {}
    /\ ~analysis_out.liq_summary.buy_spike

\* C6: a direction whose only retained event lies in the recent 60 s window
\* is reported as not spiking.
C6_SingleRecentEventNotSpiking ==
    analysis_out.done =>
        \A dir \in Directions :
            LET r == SummaryOf(dir)
            IN  (Len(r.d1) = 1 /\ r.d2 = r.d1 /\ RecentIdx(r.d1) = {1}) => ~r.spike

\* C7: the baseline average is computed from the events that precede the
\* recent window only (age from 60 s up to below 600 s): it is their sum
\* over 10, or the sentinel 1 when there are none.
C7_BaselineExcludesRecentWindow ==
    analysis_out.done =>
        \A dir \in Directions :
            LET r == SummaryOf(dir)
            IN  IF PrecedingIdx(r.d2) = {}
                THEN r.avg.num = r.avg.den
                ELSE r.avg.num * 10 = SumAt(r.d2, PrecedingIdx(r.d2)) * r.avg.den

TableFunding(m) ==
    IF m.funding < FUNDING_BEAR_THRESHOLD THEN 2
    ELSE IF m.funding > FUNDING_BULL_THRESHOLD THEN -2 ELSE 0
TableLsRatio(m) ==
    IF m.ls_ratio < LS_RATIO_SHORT_HEAVY THEN 2
    ELSE IF m.ls_ratio > LS_RATIO_LONG_HEAVY THEN -2 ELSE 0
TableOpenInterest(m) ==
    LET c == OiChangePct(m.oi_history)
    IN  IF c.num < -3 * c.den THEN 1 ELSE IF c.num > 3 * c.den THEN -1 ELSE 0
TableDepth(m) ==
    IF m.bid_liq + m.ask_liq < 2 * ORDER_BOOK_THIN_THRESHOLD THEN 1 ELSE 0
TableVolume(m) ==
    IF m.vol_ratio < VOLUME_LOW_RATIO THEN 1
    ELSE IF m.vol_ratio > VOLUME_SPIKE_RATIO THEN 1 ELSE 0
TableMomentum(m) ==
    IF m.rsi < 30 THEN 2
    ELSE IF m.rsi < 45 THEN 1
    ELSE IF m.rsi > 70 THEN -2
    ELSE IF m.rsi > 55 THEN -1 ELSE 0
TablePrice(m) ==
    IF m.price_chg_1h < -30 THEN 1 ELSE IF m.price_chg_1h > 30 THEN -1 ELSE 0
TableShortSide(l) == IF l.buy_spike THEN 2 ELSE IF l.buy_total > 0 THEN 1 ELSE 0
TableLongSide(l) == IF l.sell_spike THEN -2 ELSE IF l.sell_total > 0 THEN -1 ELSE 0
TableDeltas(m, l) ==
    <<TableFunding(m), TableLsRatio(m), TableOpenInterest(m), TableDepth(m),
      TableVolume(m), TableMomentum(m), TablePrice(m), TableShortSide(l),
      TableLongSide(l)>>

\* scenario 1: the bullish metrics, short side spiking with total 50000,
\* long side total 0; scenario 2: neutral metrics, both totals 0
InScenario1 ==
    /\ analysis_out.metrics = BullishMetrics
    /\ analysis_out.liq_summary.buy_spike
    /\ analysis_out.liq_summary.buy_total = 50000
    /\ analysis_out.liq_summary.sell_total = 0
InScenario2 ==
    /\ analysis_out.metrics = NeutralMetrics
    /\ analysis_out.liq_summary.buy_total = 0
    /\ analysis_out.liq_summary.sell_total = 0

\* C9: the score of run_analysis is the sum of the nine deltas of the rule
\* table; scenario 1 gives the deltas 2,2,1,1,1,2,1,2,0 and the score 12,
\* scenario 2 the score 0.
C9_ScoreIsSumOfTableDeltas ==
    analysis_out.done =>
        LET t == TableDeltas(analysis_out.metrics, analysis_out.liq_summary)
        IN  /\ analysis_out.score = SumSeq(t)
            /\ InScenario1 => (t = <<2, 2, 1, 1, 1, 2, 1, 2, 0>> /\ analysis_out.score = 12)
            /\ InScenario2 => analysis_out.score = 0

\* a completed cycle of scenario 1
C9_Witness == analysis_out.done /\ InScenario1 /\ analysis_out.score = 12

\* the delta a printed label stands for
LabelDelta(label) ==
    CASE label = "+2" -> 2
      [] label = "+1" -> 1
      [] label = " 0" -> 0
      [] label = "-1" -> -1
      [] label = "-2" -> -2

FactorOrder ==
    <<"funding", "ls_ratio", "open_interest", "order_book", "volume", "rsi",
      "price_change", "short_liq", "long_liq">>
SignalFactors == [i \in 1..Len(analysis_out.signals) |-> analysis_out.signals[i].factor]
SignalDeltas ==
    [i \in 1..Len(analysis_out.signals) |-> LabelDelta(analysis_out.signals[i].label)]

Reports(f) ==
    LET t == TableDeltas(analysis_out.metrics, analysis_out.liq_summary)
    IN  CASE f = "volume"    -> t[5] # 0
          [] f = "short_liq" -> t[8] # 0
          [] f = "long_liq"  -> t[9] # 0
          [] OTHER           -> TRUE

C11_DecisionClasses ==
    analysis_out.done =>
        LET S == analysis_out.score
            d == analysis_out.decision
        IN  /\ d \in {"BUY SIGNAL", "SELL / SHORT SIGNAL", "WEAK BUY",
                      "WEAK SELL", "NEUTRAL"}
            /\ (d = "BUY SIGNAL") <=> (S >= 6)
            /\ (d = "SELL / SHORT SIGNAL") <=> (S <= -6)
            /\ (d = "WEAK BUY") <=> (3 <= S /\ S < 6)
            /\ (d = "WEAK SELL") <=> (-3 >= S /\ S > -6)
            /\ (d = "NEUTRAL") <=> (-3 < S /\ S < 3)

\* a total just below the buy threshold was decided as a weak buy
C11_Witness ==
    /\ analysis_out.done
    /\ analysis_out.score = 5
    /\ analysis_out.decision = "WEAK BUY"

\* C12: whenever the reconnect loop waits out its delay, after a
\* disconnect, an error callback or an exception raised by the connection
\* run, the client is marked disconnected.
C12_DisconnectedWhileWaiting == conn_pc = "sleeping" => ~ws_connected

\* the reconnect loop never stops short of the end of the process: every
\* delay is followed by a new call of ws.run_forever, and the delay is
\* always 5 seconds
ReconnectAlwaysFollows ==
    /\ (conn_pc = "sleeping") ~> (conn_pc = "connecting" \/ ~ProcessAlive)
    /\ [][conn_pc' = "sleeping" /\ conn_pc # "sleeping"
            => wake_at' = clock + 5]_vars
    /\ [][conn_pc = "sleeping" /\ conn_pc' # "sleeping"
            => conn_pc' = "loop" /\ clock >= wake_at]_vars

\* a message that carries a side indicator, a quantity and a price
WellFormed(m) ==
    /\ m.ok
    /\ m.S \in {"BUY", "SELL"}
    /\ m.q.k = "num"
    /\ m.p.k = "num"

\* C13: a malformed message (undecodable, or lacking a valid side,
\* quantity or price) is dropped: the handler returns without appending to
\* the log or to a direction sequence and without a spike check, so a
\* handler call that goes on past decoding holds a well-formed message.
C13_MalformedDropped == ws_pc # "idle" => WellFormed(ws_local.message)

\* the positions at which a thread is inside a with liq_lock block
StreamCritical == {"ing_body", "chk_body"}
AnalysisCritical == {"sum_body1", "sum_body2"}
\* what only the stream thread reads and writes, the deques apart
StreamOwned == <<ws_pc, ws_local, last_check, delivered, ws_connected, conn_pc,
                 wake_at, attempts>>

\* C14: at most one thread is inside a critical section at a time, a thread
\* inside one holds liq_lock, every append to a deque and every read of
\* one (the spike check's, the summary's two) happens inside one, and no
\* step of one thread changes state of the other thread: the deques are all
\* the two threads share.
C14_MutualExclusion ==
    /\ [](~(ws_pc \in StreamCritical /\ an_pc \in AnalysisCritical))
    /\ [](ws_pc \in StreamCritical => liq_lock = "stream")
    /\ [](an_pc \in AnalysisCritical => liq_lock = "analysis")
    /\ [][deques' # deques
            => ws_pc = "ing_body" /\ liq_lock = "stream"]_vars
    /\ [][last_check' # last_check
            => ws_pc = "chk_body" /\ liq_lock = "stream"]_vars
    /\ [][an_local.seen_recent' # an_local.seen_recent \/ analysis_out' # analysis_out
            => an_pc \in AnalysisCritical /\ liq_lock = "analysis"]_vars
    /\ [][(an_vars' # an_vars => UNCHANGED <<StreamOwned, deques>>)
            /\ (StreamOwned' # StreamOwned => UNCHANGED an_vars)]_vars

\* the stream thread waits for the lock while the analysis thread reads
C14_Witness ==
    /\ ws_pc \in {"ing_lock", "chk_lock"}
    /\ an_pc \in AnalysisCritical
    /\ liq_lock = "analysis"

\* C15: in every connection state and under every interleaving with message
\* delivery, each started analysis cycle obtains the lock, reads the history
\* and completes with a score; the lock is held only inside the with
\* blocks, never across a wait, a reconnect delay or a spike alert.
C15_AnalysisNeverBlocked ==
    /\ (an_pc = "sum_lock1") ~> (an_pc = "idle" /\ analysis_out.done)
    /\ [](liq_lock = "stream" => ws_pc \in StreamCritical)
    /\ [](liq_lock = "analysis" => an_pc \in AnalysisCritical)

\* what does hold of the analysis path: every started cycle leaves
\* get_liquidation_summary and ends, with a score unless line 349 raises on
\* the cycle's own poll results, and the lock is held only inside the with
\* blocks
AnalysisEndsOrRaises ==
    /\ (an_pc = "sum_lock1") ~> (an_pc \in {"idle", "crashed"})
    /\ (an_pc = "sum_lock1" /\ ~OiRaises(an_local.metrics.oi_history))
           ~> (an_pc = "idle" /\ analysis_out.done)
    /\ [](liq_lock = "stream" => ws_pc \in StreamCritical)
    /\ [](liq_lock = "analysis" => an_pc \in AnalysisCritical)

\* the timestamps of a sequence of (time, value) pairs never decrease
TimeOrdered(dq) == \A i \in 1..(Len(dq) - 1) : dq[i][1] <= dq[i + 1][1]

\* C16: in every reachable state the entries of each direction's sequence
\* are in non-decreasing timestamp order, the clock never going back and
\* the stream thread being the only writer, across disconnects and
\* reconnects too.
C16_TimestampsNonDecreasing ==
    /\ TimeOrdered(liq_buy_amounts)
    /\ TimeOrdered(liq_sell_amounts)

\* two short liquidations stored with different timestamps in a behaviour
\* with a reconnect, while the clock has moved past the later timestamp
C16_Witness ==
    /\ attempts = 2
    /\ Len(liq_buy_amounts) = 2
    /\ liq_buy_amounts[1][1] < liq_buy_amounts[2][1]
    /\ liq_buy_amounts[2][1] < clock

\* the indices of the entries of dq whose timestamp is greater than cutoff
KeptIdx(dq, cutoff) == {i \in DOMAIN dq : dq[i][1] > cutoff}
\* r holds exactly the entries of dq at the indices in I, in stored order
HoldsExactly(r, dq, I) ==
    /\ Len(r) = Cardinality(I)
    /\ \A i \in I : r[Cardinality({j \in I : j <= i})] = dq[i]
\* r is the window of dq for cutoff: the entries with timestamp > cutoff in
\* stored order, none when the cutoff is not before any entry, all of them
\* when it is before every entry
IsWindow(r, dq, cutoff) ==
    /\ HoldsExactly(r, dq, KeptIdx(dq, cutoff))
    /\ (\A i \in DOMAIN dq : dq[i][1] <= cutoff) => r = <<>>
    /\ (\A i \in DOMAIN dq : dq[i][1] > cutoff) => r = dq
Values(pairs) == [i \in DOMAIN pairs |-> pairs[i][2]]

\* C17: each window query (the spike check's, the summary's recent one and
\* its older one) keeps exactly the stored entries of the direction with
\* timestamp strictly greater than the cutoff, in stored order, and the
\* spike check and the summary leave the log and both direction sequences
\* unchanged.
C17_WindowQueryExactAndPure ==
    /\ [](ws_pc = "chk_body" =>
            LET dq == SideDeque(ws_local.side, liq_buy_amounts, liq_sell_amounts)
            IN  \E r \in {RecentPairs(dq, ws_local.cutoff)} :
                    /\ IsWindow(r, dq, ws_local.cutoff)
                    /\ RecentValues(dq, ws_local.cutoff) = Values(r))
    /\ [](an_pc = "sum_lock2" =>
            /\ IsWindow(an_local.buy_recent, an_local.seen_recent.buy, an_local.cutoff)
            /\ IsWindow(an_local.sell_recent, an_local.seen_recent.sell, an_local.cutoff))
    /\ [](an_pc = "sum_body2" =>
            \A dq \in {liq_buy_amounts, liq_sell_amounts} :
                \E r \in {RecentPairs(dq, an_local.older_cutoff)} :
                    /\ IsWindow(r, dq, an_local.older_cutoff)
                    /\ RecentValues(dq, an_local.older_cutoff) = Values(r))
    /\ [][ws_pc = "chk_body" \/ an_pc \in AnalysisCritical
            => UNCHANGED deques]_vars
    /\ [][last_check' # last_check \/ an_vars' # an_vars
            => UNCHANGED deques]_vars

\* the summary's recent query has dropped an entry whose timestamp equals
\* the cutoff and has kept a later one
C17_Witness ==
    /\ an_pc = "sum_lock2"
    /\ Len(an_local.seen_recent.buy) = 2
    /\ an_local.seen_recent.buy[1][1] = an_local.cutoff
    /\ an_local.buy_recent = <<an_local.seen_recent.buy[2]>>

\* every event of a direction ever ingested, as (time, value) pairs
EverIngested(IsDir(_)) == PairsOf(SelectSeq(ingested, IsDir))
\* the summary's figures for one direction
DirectionFigures(dir) ==
    IF dir = "BUY"
    THEN [total |-> analysis_out.liq_summary.buy_total,
          count |-> analysis_out.liq_summary.buy_count,
          avg   |-> analysis_out.liq_summary.avg_buy,
          ever  |-> EverIngested(IsShortLiq)]
    ELSE [total |-> analysis_out.liq_summary.sell_total,
          count |-> analysis_out.liq_summary.sell_count,
          avg   |-> analysis_out.liq_summary.avg_sell,
          ever  |-> EverIngested(IsLongLiq)]
\* at most 200 events of the direction were ingested within the last 600 s
HistoryCovered(f) ==
    Len(RecentPairs(f.ever, analysis_out.now - 600)) <= 200

\* C18: whenever at most 200 events of a direction were ingested within the
\* last 600 s, the summary's recent total and count and its baseline sum
\* for that direction equal those computed over every event of the
\* direction ever ingested: eviction has removed nothing a query should see.
C18_ExactWhileHistoryCovered ==
    analysis_out.done =>
        \A dir \in {"BUY", "SELL"} :
            LET f      == DirectionFigures(dir)
                recent == RecentValues(f.ever, analysis_out.now - 60)
                base   == RecentValues(f.ever, analysis_out.now - 600)
            IN  HistoryCovered(f) =>
                    /\ f.total = SumSeq(recent)
                    /\ f.count = Len(recent)
                    /\ IF base = <<>> THEN f.avg = [num |-> 1, den |-> 1]
                       ELSE f.avg.num = SumSeq(base) /\ f.avg.den = 10

\* the summary of a deque that has evicted events, exactly 200 events of
\* the direction being younger than 600 s
C18_Witness ==
    /\ analysis_out.done
    /\ Len(ingested) > 200
    /\ \E dir \in {"BUY", "SELL"} :
          LET f == DirectionFigures(dir)
          IN  /\ Len(f.ever) > 200
              /\ Len(RecentPairs(f.ever, analysis_out.now - 600)) = 200
              /\ f.avg.den = 10

\* the same equality without the condition on the retained history
ExactAlways ==
    analysis_out.done =>
        \A dir \in {"BUY", "SELL"} :
            LET f == DirectionFigures(dir)
            IN  f.total = SumSeq(RecentValues(f.ever, analysis_out.now - 60))

\* the pollers of a cycle that returned their default
Defaulted(m) ==
    {c \in {"funding", "ls_ratio", "oi_history", "depth", "vol_ratio", "rsi",
            "price_chg_1h"} :
        CASE c = "funding"      -> m.funding = DefaultMetrics.funding
          [] c = "ls_ratio"     -> m.ls_ratio = DefaultMetrics.ls_ratio
          [] c = "oi_history"   -> m.oi_history = DefaultMetrics.oi_history
          [] c = "depth"        -> m.bid_liq = DefaultMetrics.bid_liq
                                   /\ m.ask_liq = DefaultMetrics.ask_liq
          [] c = "vol_ratio"    -> m.vol_ratio = DefaultMetrics.vol_ratio
          [] c = "rsi"          -> m.rsi = DefaultMetrics.rsi
          [] c = "price_chg_1h" -> m.price_chg_1h = DefaultMetrics.price_chg_1h}

DecisionLabels ==
    {"BUY SIGNAL", "SELL / SHORT SIGNAL", "WEAK BUY", "WEAK SELL", "NEUTRAL"}

\* C19: whichever subset of the pollers returned its default, run_analysis
\* raises no error and completes with a score and a decision.
C19_NeverHaltedByFailedPolls ==
    [][an_pc = "sum_body2" /\ an_pc' # "sum_body2"
         => /\ an_pc' = "idle"
            /\ analysis_out'.done
            /\ analysis_out'.score \in Int
            /\ analysis_out'.decision \in DecisionLabels]_vars

\* what does hold of failed polls: no default is the cause of a halt.  A
\* cycle halts only on an open-interest history that was polled
\* successfully and begins with 0, and with the same values of the other
\* pollers it completes once the open-interest poll fails too; a cycle in
\* which every poller failed completes.
DefaultsNeverHalt ==
    [][an_pc = "sum_body2" /\ an_pc' # "sum_body2"
         => IF "oi_history" \in Defaulted(an_local.metrics)
               \/ an_local.metrics.oi_history[1] # 0
            THEN /\ an_pc' = "idle"
                 /\ analysis_out'.done
                 /\ analysis_out'.score \in Int
                 /\ analysis_out'.decision \in DecisionLabels
            ELSE an_pc' = "crashed"]_vars

\* a cycle in which every poller failed has completed
AllDefaultsCompleted ==
    /\ analysis_out.done
    /\ analysis_out.metrics = DefaultMetrics

\* every component on its bullish side, at its strongest
AllBullish(m, liq_summary) ==
    /\ m.funding < FUNDING_BEAR_THRESHOLD
    /\ m.ls_ratio < LS_RATIO_SHORT_HEAVY
    /\ OiChangePct(m.oi_history).num < -3 * OiChangePct(m.oi_history).den
    /\ m.bid_liq + m.ask_liq < 2 * ORDER_BOOK_THIN_THRESHOLD
    /\ (m.vol_ratio < VOLUME_LOW_RATIO \/ m.vol_ratio > VOLUME_SPIKE_RATIO)
    /\ m.rsi < 30
    /\ m.price_chg_1h < -30
    /\ liq_summary.buy_spike
    /\ liq_summary.sell_total = 0

\* every component on its bearish side, at its strongest; the order book
\* and the volume are at the only outcome they have besides the bullish one
AllBearish(m, liq_summary) ==
    /\ m.funding > FUNDING_BULL_THRESHOLD
    /\ m.ls_ratio > LS_RATIO_LONG_HEAVY
    /\ OiChangePct(m.oi_history).num > 3 * OiChangePct(m.oi_history).den
    /\ m.bid_liq + m.ask_liq >= 2 * ORDER_BOOK_THIN_THRESHOLD
    /\ m.vol_ratio >= VOLUME_LOW_RATIO
    /\ m.vol_ratio <= VOLUME_SPIKE_RATIO
    /\ m.rsi > 70
    /\ m.price_chg_1h > 30
    /\ liq_summary.sell_spike
    /\ liq_summary.buy_total = 0

\* C20: the total score of every analysis cycle lies in -12..12, and both
\* extremes are attained: the cycle with every component at its most
\* bullish totals +12 and the one with every component at its most bearish
\* totals -12.
C20_ScoreRange ==
    analysis_out.done =>
        /\ analysis_out.score \in -12..12
        /\ AllBullish(analysis_out.metrics, analysis_out.liq_summary)
              => analysis_out.score = 12
        /\ AllBearish(analysis_out.metrics, analysis_out.liq_summary)
              => analysis_out.score = -12

\* what does hold of the total: it lies in -10..12, the order-book and the
\* volume rules adding 1 or nothing (lines 390-402)
ScoreBetweenMinus10And12 ==
    analysis_out.done => analysis_out.score \in -10..12

\* the most bullish cycle has completed with +12
MostBullishCycle ==
    /\ analysis_out.done
    /\ AllBullish(analysis_out.metrics, analysis_out.liq_summary)
    /\ analysis_out.score = 12

\* the most bearish cycle has completed with -10
MostBearishCycle ==
    /\ analysis_out.done
    /\ AllBearish(analysis_out.metrics, analysis_out.liq_summary)
    /\ analysis_out.score = -10

\* the entries the baseline read of the running call uses: those of dq newer
\* than older_cutoff, read at an_pc = "sum_body2" with the lock held
BaselineUsed(dq) == RecentPairs(dq, an_local.older_cutoff)

\* the recent entries r and the baseline read of dq fit one state of dq:
\* every recent entry is a baseline entry, and the baseline entries inside
\* the recent window are exactly the recent entries
OneInstant(r, dq) ==
    /\ \A i \in DOMAIN r : \E j \in DOMAIN BaselineUsed(dq) : BaselineUsed(dq)[j] = r[i]
    /\ RecentPairs(BaselineUsed(dq), an_local.cutoff) = r

\* C21: under every interleaving with concurrent ingestion, the recent
\* entries a summary used are among the baseline entries it used, every
\* baseline entry inside the recent window is counted in the recent total,
\* and the two reads saw the same sequences (no ingest or eviction between
\* them).
C21_SummaryOfOneInstant ==
    an_pc = "sum_body2" =>
        /\ OneInstant(an_local.buy_recent, liq_buy_amounts)
        /\ OneInstant(an_local.sell_recent, liq_sell_amounts)
        /\ an_local.seen_recent.buy = liq_buy_amounts
        /\ an_local.seen_recent.sell = liq_sell_amounts

\* what does hold of the two reads: when no message was ingested between
\* them, the summary fits the one state both reads saw
SummaryOfOneInstantWhenUndisturbed ==
    (/\ an_pc = "sum_body2"
     /\ an_local.seen_recent.buy = liq_buy_amounts
     /\ an_local.seen_recent.sell = liq_sell_amounts)
        => /\ OneInstant(an_local.buy_recent, liq_buy_amounts)
           /\ OneInstant(an_local.sell_recent, liq_sell_amounts)

\* a summary has been returned whose baseline read saw a short liquidation
\* of the last 60 s that its recent read had not seen
IngestBetweenReads ==
    /\ analysis_out.done
    /\ analysis_out.seen_recent.buy = <<>>
    /\ analysis_out.seen_older.buy # <<>>
    /\ analysis_out.liq_summary.buy_total = 0
    /\ analysis_out.liq_summary.avg_buy.num > 0

\* a completed cycle in which every poller returned its failure default and
\* no liquidation event is stored
AllFailedNoEvents ==
    /\ analysis_out.done
    /\ analysis_out.metrics = DefaultMetrics
    /\ ingested = <<>>

\* C22: when every poller returns its failure default and no liquidation
\* event is stored, every factor contributes 0 and the cycle totals 0 with
\* the neutral decision.
C22_FailedPollsScoreNeutral ==
    AllFailedNoEvents =>
        /\ \A i \in 1..9 :
              Branches(analysis_out.metrics, analysis_out.liq_summary)[i].inc = 0
        /\ analysis_out.score = 0
        /\ analysis_out.decision = "NEUTRAL"

\* what does hold of that cycle: the order-book rule alone contributes, +1
\* for the default depth (0.0, 0.0) read as a thin book (lines 351, 390-392),
\* the total is 1 and the decision is neutral
AllFailedScoresOne ==
    AllFailedNoEvents =>
        /\ \A i \in 1..9 :
              Branches(analysis_out.metrics, analysis_out.liq_summary)[i].inc
                  = IF i = 4 THEN 1 ELSE 0
        /\ analysis_out.score = 1
        /\ analysis_out.decision = "NEUTRAL"

\* the cycle with every poller failed and no event stored has completed
AllFailedCycle == AllFailedNoEvents /\ analysis_out.score = 1
=============================================================================
